---- MODULE Spec2Model ----
(***************************************************************************)
(* A model of review_app_scan.py: discovery of sub-namespaces, the         *)
(* review-app name filter, the per-namespace release age evaluation and    *)
(* the emission of the matrix line to GITHUB_OUTPUT.                       *)
(*                                                                         *)
(* Text (namespace names, regular expressions, file content) is a sequence *)
(* of one-character strings.  Time is counted in minutes.                  *)
(***************************************************************************)
EXTENDS Integers, Sequences, FiniteSets, TLC

(***************************************************************************)
(* Bounds of the model.                                                    *)
(***************************************************************************)
\* longest list of sub-namespaces the discovery query returns
MaxNs == 3
\* how many minutes the wall clock may advance during the check
MaxTicks == 1
\* how many times the program is run against the same output file
MaxRuns == 2

(***************************************************************************)
(* Program constants.                                                      *)
(***************************************************************************)
\* argparse default of --max-age
DefaultMaxAge == 72
\* timedelta(hours=h) is h * 60 minutes
MinutesPerHour == 60

(***************************************************************************)
(* Text helpers.                                                           *)
(***************************************************************************)
Digits == {"0", "1", "2", "3", "4", "5", "6", "7", "8", "9"}

RECURSIVE Flatten(_)
\* concatenation of a sequence of texts
Flatten(ss) == IF ss = <<>> THEN <<>> ELSE Head(ss) \o Flatten(Tail(ss))

Range(s) == {s[i] : i \in DOMAIN s}

(***************************************************************************)
(* re.match(pattern, string): the part of Python's regular expressions the *)
(* program's pattern can contain over the model's alphabet: literal        *)
(* characters, the class \d, the wildcard '.', and the repetition '+'.     *)
(***************************************************************************)
RECURSIVE ReCompile(_, _)
\* the atoms of the regular expression re, read from position i
ReCompile(re, i) ==
    IF i > Len(re) THEN <<>>
    ELSE LET isClass == re[i] = "\\" /\ i < Len(re) /\ re[i + 1] = "d"
             kind == IF isClass THEN "digit"
                     ELSE IF re[i] = "." THEN "any" ELSE "lit"
             w == IF isClass THEN 2 ELSE 1
             plus == i + w <= Len(re) /\ re[i + w] = "+"
             atom == [kind |-> kind, ch |-> re[i], plus |-> plus]
         IN  <<atom>> \o ReCompile(re, i + w + (IF plus THEN 1 ELSE 0))

\* whether one atom accepts the character c
ReFits(atom, c) ==
    CASE atom.kind = "digit" -> c \in Digits
      [] atom.kind = "any" -> c # "\n"
      [] OTHER -> c = atom.ch

RECURSIVE ReMatchFrom(_, _, _, _)
\* whether atoms k.. match a prefix of s that starts at position i
ReMatchFrom(atoms, k, s, i) ==
    IF k > Len(atoms) THEN TRUE
    ELSE IF i > Len(s) THEN FALSE
    ELSE IF ~ReFits(atoms[k], s[i]) THEN FALSE
    ELSE \/ atoms[k].plus /\ ReMatchFrom(atoms, k, s, i + 1)
         \/ ReMatchFrom(atoms, k + 1, s, i + 1)

\* re.match(pattern=re, string=s) is not None: anchored at the start only
ReMatch(re, s) == ReMatchFrom(ReCompile(re, 1), 1, s, 1)

\* f"review-\d+-{review_app_name}"
ReviewRegex(review_app_name) ==
    <<"r", "e", "v", "i", "e", "w", "-", "\\", "d", "+", "-">> \o review_app_name

\* filter_namespaces without the test of line 65: every name is kept
FilterNamespaces_NoTest(namespaces, review_app_name) == namespaces

\* filter_namespaces: the names the pattern matches, in their order; the
\* review_app_name is spliced into the pattern as it is
FilterNamespaces(namespaces, review_app_name) ==
    SelectSeq(namespaces, LAMBDA n : ReMatch(ReviewRegex(review_app_name), n))

(***************************************************************************)
(* write_output: str.split, json.dumps and the append to the file.         *)
(***************************************************************************)
\* position of the first sep in s at or after i, 0 when there is none
RECURSIVE IndexOf(_, _, _)
IndexOf(s, sep, i) ==
    IF i > Len(s) THEN 0
    ELSE IF s[i] = sep THEN i ELSE IndexOf(s, sep, i + 1)

RECURSIVE Split(_, _)
\* s.split(sep) for a one-character sep
Split(s, sep) ==
    LET p == IndexOf(s, sep, 1)
    IN  IF p = 0 THEN <<s>>
        ELSE <<SubSeq(s, 1, p - 1)>> \o Split(SubSeq(s, p + 1, Len(s)), sep)

\* json.dumps of one character of a string
JsonChar(c) ==
    IF c = "\"" THEN <<"\\", "\"">>
    ELSE IF c = "\\" THEN <<"\\", "\\">>
    ELSE IF c = "\n" THEN <<"\\", "n">>
    ELSE <<c>>

\* json.dumps of a string
JsonString(s) ==
    <<"\"">> \o Flatten([i \in DOMAIN s |-> JsonChar(s[i])]) \o <<"\"">>

RECURSIVE JsonItems(_)
\* the items of a JSON list of strings with separator ','
JsonItems(l) ==
    IF l = <<>> THEN <<>>
    ELSE IF Len(l) = 1 THEN JsonString(l[1])
    ELSE JsonString(l[1]) \o <<",">> \o JsonItems(Tail(l))

\* json.dumps({"pr_numbers": pr_list}, separators=(",", ":"))
JsonDump(pr_list) ==
    <<"{">> \o JsonString(<<"p", "r", "_", "n", "u", "m", "b", "e", "r", "s">>)
        \o <<":", "[">> \o JsonItems(pr_list) \o <<"]", "}">>

\* whether namespace.split("-")[1] exists for every name of the list
CanSplit(namespace_list) ==
    \A i \in DOMAIN namespace_list : Len(Split(namespace_list[i], "-")) >= 2

\* pr_list taken from segment 0 instead of segment 1
PrList_First(namespace_list) ==
    [i \in DOMAIN namespace_list |-> Split(namespace_list[i], "-")[1]]

\* pr_list: namespace.split("-")[1] of every namespace of the list
PrList(namespace_list) ==
    [i \in DOMAIN namespace_list |-> Split(namespace_list[i], "-")[2]]

\* output = f"matrix={dump}"
OutputText(namespace_list) ==
    <<"m", "a", "t", "r", "i", "x", "=">> \o JsonDump(PrList(namespace_list))

\* the file opened with mode "w" instead of "a"
FileWrite_Overwrite(content, output) == output

\* open(GITHUB_OUTPUT, "a"); f.write(output)
FileWrite(content, output) == content \o output

(***************************************************************************)
(* The cluster: what the two external tools answer.  An answer is          *)
(* [kind, val]: the tool exits non-zero, prints something that is not      *)
(* JSON, or prints JSON.  The cluster does not change during the check:    *)
(* the answer for a namespace is fixed the first time it is asked for.     *)
(***************************************************************************)
NsA == <<"r", "e", "v", "i", "e", "w", "-", "1", "-", "f", "o">>
NsB == <<"r", "e", "v", "i", "e", "w", "-", "1", "2", "-", "f", "o", "x">>
NsX == <<"r", "e", "v", "i", "e", "w", "-", "x", "-", "f", "o">>
\* the sub-namespace names the cluster may hold under the parent namespace
Names == {NsA, NsB, NsX}

\* the review_app_name given on the command line
AppFo == <<"f", "o">>

\* sequences over S of length at most n
SeqUpTo(S, n) == UNION {[1..k -> S] : k \in 0..n}

\* 'updated' values of a release record: a timestamp with a UTC offset
\* (local wall time and offset, in minutes), text that is no timestamp, or
\* no 'updated' key at all
Stamp(local, off) == [kind |-> "ts", local |-> local, off |-> off]
NoStamp(kind) == [kind |-> kind, local |-> 0, off |-> 0]
AgeLimit == DefaultMaxAge * MinutesPerHour
\* updated one minute longer ago than the limit, seen from time 0
StampOld == Stamp(0 - AgeLimit - 1, 0)
\* updated exactly the limit ago, seen from time 0, written at +01:00
StampEdge == Stamp(MinutesPerHour - AgeLimit, MinutesPerHour)
\* updated one minute less than the limit ago, seen from time 0
StampFresh == Stamp(1 - AgeLimit, 0)
Release(u) == [updated |-> u]

Answer(kind, val) == [kind |-> kind, val |-> val]
Unknown == Answer("unknown", <<>>)
\* answers of `helm list --namespace n -o json`
HelmResponses ==
    {Answer("exit_nonzero", <<>>), Answer("bad_json", <<>>), Answer("json", <<>>),
     Answer("json", <<Release(StampOld)>>),
     Answer("json", <<Release(StampEdge)>>),
     Answer("json", <<Release(StampFresh)>>),
     Answer("json", <<Release(NoStamp("garbage"))>>),
     Answer("json", <<Release(NoStamp("missing"))>>),
     Answer("json", <<Release(StampOld), Release(StampFresh)>>)}
\* answers of `kubectl get subnamespaceanchors -o json`: val is the list of
\* items[..].metadata.name
KubectlResponses ==
    {Answer("exit_nonzero", <<>>), Answer("bad_json", <<>>)}
        \cup {Answer("json", l) : l \in SeqUpTo(Names, MaxNs)}

(***************************************************************************)
(* The functions of the program.  A call returns [exc, val]: exc is the    *)
(* exception it raises, "" when it returns val.                            *)
(***************************************************************************)
Return(val) == [exc |-> "", val |-> val]
Raise(exc, val) == [exc |-> exc, val |-> val]

\* run_subprocess: check=True raises on a non-zero exit, json.loads on bad JSON
RunSubprocess(answer) ==
    CASE answer.kind = "exit_nonzero" -> Raise("CalledProcessError", <<>>)
      [] answer.kind = "bad_json" -> Raise("JSONDecodeError", <<>>)
      [] OTHER -> Return(answer.val)

\* get_subnamespaces that swallows the failure of the query and returns
\* no names
GetSubnamespaces_Swallow(answer) ==
    IF RunSubprocess(answer).exc = "" THEN RunSubprocess(answer) ELSE Return(<<>>)

\* get_subnamespaces: the names of the items, or the exception of the query
GetSubnamespaces(answer) == RunSubprocess(answer)

\* get_helm_chart: helm_data[0], IndexError on an empty list
GetHelmChart(answer) ==
    LET r == RunSubprocess(answer)
    IN  IF r.exc # "" THEN Raise(r.exc, Release(NoStamp("missing")))
        ELSE IF Len(r.val) = 0 THEN Raise("IndexError", Release(NoStamp("missing")))
        ELSE Return(r.val[1])

\* the local variable chart of main: unbound until the first assignment
Unbound == [bound |-> FALSE, rec |-> Release(NoStamp("missing"))]
Bound(rec) == [bound |-> TRUE, rec |-> rec]

\* try: chart = get_helm_chart(namespace) / except: logging.error(...)
\* the except clause leaves chart as it was
ChartAfterTry(chart, r) == IF r.exc = "" THEN Bound(r.val) ELSE chart

\* parser.parse(chart["updated"]): the instant of an offset-aware timestamp
ParseUpdated(chart) ==
    IF ~chart.bound THEN Raise("UnboundLocalError", 0)
    ELSE IF chart.rec.updated.kind = "missing" THEN Raise("KeyError", 0)
    ELSE IF chart.rec.updated.kind = "garbage" THEN Raise("ParserError", 0)
    ELSE Return(chart.rec.updated.local - chart.rec.updated.off)

\* the comparison with >= instead of >
IsOlder_OrEqual(delta, max_age) == delta >= max_age * MinutesPerHour

\* delta > timedelta(hours=max_age)
IsOlder(delta, max_age) == delta > max_age * MinutesPerHour

\* one iteration of the for loop of main: the chart after the try
\* statement, the exception that leaves the loop (if any) and the list
LoopBody(namespace, answer, chart, time, max_age, list) ==
    LET r == GetHelmChart(answer)
        c == ChartAfterTry(chart, r)
        t == ParseUpdated(c)
        add == t.exc = "" /\ IsOlder(time - t.val, max_age)
    IN  [chart |-> c, exc |-> t.exc,
         to_be_deleted |-> IF add THEN Append(list, namespace) ELSE list]

(***************************************************************************)
(* State.                                                                  *)
(***************************************************************************)
VARIABLES
    pc,                    \* where main is: start, discover, filter, loop, done, aborted
    run,                   \* number of the current run of the program
    now,                   \* the wall clock, in minutes
    args,                  \* the parsed command line
    current_time,          \* main's snapshot of the clock
    subnamespaces,         \* result of get_subnamespaces
    review_app_namespaces, \* result of filter_namespaces
    idx,                   \* position of the for loop in review_app_namespaces
    chart,                 \* main's local variable chart
    to_be_deleted,         \* the deletion candidate list
    error,                 \* the exception that ended the run, "" if none
    github_output,         \* content of the file named by GITHUB_OUTPUT
    anchors,               \* the cluster's answer to the discovery query
    helm,                  \* the cluster's answer to helm list, per namespace
    calls,                 \* how often this run called filter, helm and write
    prior,                 \* content of the output file before the first run
    outputs,               \* the texts written by the completed write_output calls
    prev                   \* the outcome of the previous run

vars == <<pc, run, now, args, current_time, subnamespaces, review_app_namespaces,
          idx, chart, to_be_deleted, error, github_output, anchors, helm,
          calls, prior, outputs, prev>>

cluster == <<anchors, helm>>
locals == <<current_time, subnamespaces, review_app_namespaces, idx, chart,
            to_be_deleted>>
history == <<calls, prior, outputs, prev>>

NoCalls == [filter |-> 0, helm |-> 0, write |-> 0]
NoPrev == [valid |-> FALSE, pc |-> "", current_time |-> 0, to_be_deleted |-> <<>>,
           before |-> <<>>, after |-> <<>>]
\* content the output file may have before the first run
PriorContents == {<<>>, <<"a", "=", "1", "\n">>}

\* the state of a fresh process that has not yet entered main
Fresh ==
    /\ pc = "start"
    /\ current_time = 0
    /\ subnamespaces = <<>>
    /\ review_app_namespaces = <<>>
    /\ idx = 1
    /\ chart = Unbound
    /\ to_be_deleted = <<>>
    /\ error = ""
    /\ calls = NoCalls

Init ==
    /\ Fresh
    /\ run = 1
    /\ now = 0
    /\ args = [review_app_name |-> AppFo, max_age |-> DefaultMaxAge]
    /\ github_output \in PriorContents
    /\ prior = github_output
    /\ anchors = Unknown
    /\ helm = [n \in Names |-> Unknown]
    /\ outputs = <<>>
    /\ prev = NoPrev

(***************************************************************************)
(* Actions.                                                                *)
(***************************************************************************)
\* the wall clock advances
Tick ==
    /\ now < MaxTicks
    /\ now' = now + 1
    /\ UNCHANGED <<pc, run, args, locals, error, github_output, cluster, history>>

\* main, lines 118-120: the arguments, the snapshot of the clock, the empty list
Start ==
    /\ pc = "start"
    /\ current_time' = now
    /\ to_be_deleted' = <<>>
    /\ pc' = "discover"
    /\ UNCHANGED <<run, now, args, subnamespaces, review_app_namespaces, idx, chart,
                   error, github_output, cluster, history>>

\* main, line 123: get_subnamespaces(args.namespace); an exception ends the run
Discover ==
    /\ pc = "discover"
    /\ \E answer \in (IF anchors = Unknown THEN KubectlResponses ELSE {anchors}) :
         LET r == GetSubnamespaces(answer)
         IN  /\ anchors' = answer
             /\ IF r.exc = ""
                  THEN /\ subnamespaces' = r.val
                       /\ pc' = "filter"
                       /\ error' = error
                  ELSE /\ subnamespaces' = subnamespaces
                       /\ pc' = "aborted"
                       /\ error' = r.exc
    /\ UNCHANGED <<run, now, args, current_time, review_app_namespaces, idx, chart,
                   to_be_deleted, github_output, helm, history>>

\* main, lines 122-124: filter_namespaces on the discovered names
Filter ==
    /\ pc = "filter"
    /\ review_app_namespaces' = FilterNamespaces(subnamespaces, args.review_app_name)
    /\ calls' = [calls EXCEPT !.filter = @ + 1]
    /\ idx' = 1
    /\ pc' = "loop"
    /\ UNCHANGED <<run, now, args, current_time, subnamespaces, chart, to_be_deleted,
                   error, github_output, cluster, prior, outputs, prev>>

\* main, lines 128-142: one iteration of the for loop
LoopStep ==
    /\ pc = "loop"
    /\ idx <= Len(review_app_namespaces)
    /\ LET namespace == review_app_namespaces[idx]
       IN  \E answer \in (IF helm[namespace] = Unknown THEN HelmResponses
                          ELSE {helm[namespace]}) :
             LET b == LoopBody(namespace, answer, chart, current_time,
                               args.max_age, to_be_deleted)
             IN  /\ helm' = [helm EXCEPT ![namespace] = answer]
                 /\ calls' = [calls EXCEPT !.helm = @ + 1]
                 /\ chart' = b.chart
                 /\ to_be_deleted' = b.to_be_deleted
                 /\ IF b.exc = ""
                      THEN /\ idx' = idx + 1
                           /\ pc' = pc
                           /\ error' = error
                      ELSE /\ idx' = idx
                           /\ pc' = "aborted"
                           /\ error' = b.exc
    /\ UNCHANGED <<run, now, args, current_time, subnamespaces, review_app_namespaces,
                   github_output, anchors, prior, outputs, prev>>

\* main, line 148: write_output(to_be_deleted) once the loop is over
WriteOutput ==
    /\ pc = "loop"
    /\ idx > Len(review_app_namespaces)
    /\ calls' = [calls EXCEPT !.write = @ + 1]
    /\ IF CanSplit(to_be_deleted)
         THEN /\ github_output' = FileWrite(github_output, OutputText(to_be_deleted))
              /\ outputs' = Append(outputs, OutputText(to_be_deleted))
              /\ pc' = "done"
              /\ error' = error
         ELSE /\ github_output' = github_output
              /\ outputs' = outputs
              /\ pc' = "aborted"
              /\ error' = "IndexError"
    /\ UNCHANGED <<run, now, args, locals, cluster, prior, prev>>

\* the program is started again, with the same command line, output file
\* and cluster
Rerun ==
    /\ pc \in {"done", "aborted"}
    /\ run < MaxRuns
    /\ run' = run + 1
    /\ prev' = [valid |-> TRUE, pc |-> pc, current_time |-> current_time,
                to_be_deleted |-> to_be_deleted,
                before |-> IF prev.valid THEN prev.after ELSE prior,
                after |-> github_output]
    /\ pc' = "start"
    /\ current_time' = 0
    /\ subnamespaces' = <<>>
    /\ review_app_namespaces' = <<>>
    /\ idx' = 1
    /\ chart' = Unbound
    /\ to_be_deleted' = <<>>
    /\ error' = ""
    /\ calls' = NoCalls
    /\ UNCHANGED <<now, args, github_output, cluster, prior, outputs>>

Next == Tick \/ Start \/ Discover \/ Filter \/ LoopStep \/ WriteOutput \/ Rerun

Spec == Init /\ [][Next]_vars

(***************************************************************************)
(* filter_namespaces on its own: the state of main right before line 122,  *)
(* for a wider choice of discovered names and application names.           *)
(***************************************************************************)
Review == <<"r", "e", "v", "i", "e", "w", "-">>
Foo == <<"f", "o", "o">>
FilterNames ==
    {Review \o <<"1", "2", "-">> \o Foo,
     Review \o <<"x", "-">> \o Foo,
     Review \o <<"3", "4", "-">> \o Foo \o <<"b", "a", "r">>,
     Foo \o <<"-", "1", "2", "-">> \o Foo,
     Review \o <<"-">> \o Foo,
     Review \o <<"5", "-", "f", "x", "o">>}
FilterApps == {Foo, <<"f", ".", "o">>}
\* the example list of the specification's testable properties
ExampleNames ==
    <<Review \o <<"1", "2", "-">> \o Foo,
      Review \o <<"x", "-">> \o Foo,
      Review \o <<"3", "4", "-">> \o Foo \o <<"b", "a", "r">>,
      Foo \o <<"-", "1", "2", "-">> \o Foo>>

InitFilter ==
    /\ pc = "filter"
    /\ run = 1
    /\ now = 0
    /\ current_time = 0
    /\ args \in [review_app_name : FilterApps, max_age : {DefaultMaxAge}]
    /\ subnamespaces \in SeqUpTo(FilterNames, MaxNs) \cup {ExampleNames}
    /\ review_app_namespaces = <<>>
    /\ idx = 1
    /\ chart = Unbound
    /\ to_be_deleted = <<>>
    /\ error = ""
    /\ github_output = <<>>
    /\ prior = <<>>
    /\ anchors = Answer("json", subnamespaces)
    /\ helm = [n \in Names |-> Unknown]
    /\ calls = NoCalls
    /\ outputs = <<>>
    /\ prev = NoPrev

NextFilter == Filter

SpecFilter == InitFilter /\ [][NextFilter]_vars

(***************************************************************************)
(* write_output on its own: the state of main right before line 148, when  *)
(* every discovered namespace matched and was old enough to be selected.   *)
(***************************************************************************)
AppF == <<"f">>
WriteNames ==
    {Review \o <<"4", "2", "-">> \o Foo,
     Review \o <<"7", "-">> \o Foo,
     Review \o <<"1", "2", "-">> \o Foo \o <<"b", "a", "r">>,
     Review \o <<"3", "-", "f", "-", "o">>,
     Review \o <<"1", "0", "0", "-", "f">>}

InitWrite ==
    /\ pc = "loop"
    /\ run = 1
    /\ now = 0
    /\ current_time = 0
    /\ args = [review_app_name |-> AppF, max_age |-> DefaultMaxAge]
    /\ to_be_deleted \in SeqUpTo(WriteNames, MaxNs)
    /\ subnamespaces = to_be_deleted
    /\ review_app_namespaces = to_be_deleted
    /\ idx = Len(to_be_deleted) + 1
    /\ chart = IF to_be_deleted = <<>> THEN Unbound ELSE Bound(Release(StampOld))
    /\ error = ""
    /\ github_output \in PriorContents
    /\ prior = github_output
    /\ anchors = Answer("json", subnamespaces)
    /\ helm = [n \in Names |-> Unknown]
    /\ calls = [filter |-> 1, helm |-> Len(to_be_deleted), write |-> 0]
    /\ outputs = <<>>
    /\ prev = NoPrev

NextWrite == WriteOutput

SpecWrite == InitWrite /\ [][NextWrite]_vars

(***************************************************************************)
(* Properties.                                                             *)
(***************************************************************************)
\* the release lookup for a namespace with this answer fails
LookupFails(answer) ==
    \/ answer.kind \in {"exit_nonzero", "bad_json"}
    \/ answer.kind = "json" /\ answer.val = <<>>

\* the release lookup succeeds and its record carries a readable timestamp
LookupGivesStamp(answer) ==
    /\ answer.kind = "json"
    /\ answer.val # <<>>
    /\ answer.val[1].updated.kind = "ts"

\* the instant a timestamp with a UTC offset denotes
InstantOf(u) == u.local - u.off

\* the loop has gone through positions 1..Processed of the filtered list
Processed == idx - 1

\* the namespace the loop was working on when the run ended with an exception
AbortedAt == review_app_namespaces[idx]
AbortedInLoop ==
    /\ pc = "aborted"
    /\ calls.filter = 1
    /\ idx <= Len(review_app_namespaces)

\* C1: a namespace whose release lookup fails is never in the deletion
\* candidate list, whatever its position and whatever came before it.
C1_FailedLookupNeverSelected ==
    \A i \in DOMAIN to_be_deleted : ~LookupFails(helm[to_be_deleted[i]])

\* C2: a release lookup failure never aborts the run: the run never ends
\* with an exception at a namespace whose lookup failed.
C2_LookupFailureNeverAborts ==
    AbortedInLoop => ~LookupFails(helm[AbortedAt])

\* C7: an 'updated' field that is no timestamp is a failure of that
\* namespace only: the run never ends with an exception at a namespace
\* whose lookup succeeded with an unreadable or absent timestamp.
C7_BadTimestampNeverAborts ==
    AbortedInLoop =>
        (LookupFails(helm[AbortedAt]) \/ LookupGivesStamp(helm[AbortedAt]))

\* C3: a processed namespace whose lookup succeeded with timestamp T is in
\* the deletion candidate list exactly if the snapshot current_time minus T
\* is strictly more than max_age hours.
C3_SelectedIffStrictlyOlder ==
    \A i \in 1..Processed :
        LET n == review_app_namespaces[i]
        IN  LookupGivesStamp(helm[n]) =>
              ((n \in Range(to_be_deleted))
                 <=> (current_time - InstantOf(helm[n].val[1].updated)
                        > args.max_age * MinutesPerHour))

\* C3 witness: the run is over, the clock has moved on since the snapshot,
\* a namespace aged exactly max_age hours at the snapshot was left out and
\* one aged a minute more was selected.
C3_Witness ==
    /\ pc = "done"
    /\ current_time = 0
    /\ now = 1
    /\ helm[NsA] = Answer("json", <<Release(StampEdge)>>)
    /\ helm[NsB] = Answer("json", <<Release(StampOld)>>)
    /\ review_app_namespaces = <<NsA, NsB>>
    /\ to_be_deleted = <<NsB>>

\* a name that starts with review-, one or more digits, '-', and app as it
\* is written
LiteralMatch(name, app) ==
    \E k \in 1..Len(name) :
        LET d == Len(Review)
        IN  /\ Len(name) >= d + k + 1 + Len(app)
            /\ SubSeq(name, 1, d) = Review
            /\ \A j \in (d + 1)..(d + k) : name[j] \in Digits
            /\ name[d + k + 1] = "-"
            /\ SubSeq(name, d + k + 2, d + k + 1 + Len(app)) = app

\* C4: filter_namespaces returns exactly, in the original order, the names
\* that start with review-<digits>-<application name>, the application name
\* taken as a literal string.
C4_FilterIsLiteralPrefix ==
    pc = "loop" =>
        review_app_namespaces =
            SelectSeq(subnamespaces, LAMBDA n : LiteralMatch(n, args.review_app_name))

\* the lines of a text: its pieces between line feeds, a line feed at the
\* very end starting no further line
LinesOf(text) ==
    LET pieces == Split(text, "\n")
    IN  IF pieces[Len(pieces)] = <<>> THEN SubSeq(pieces, 1, Len(pieces) - 1)
        ELSE pieces

\* C5: after k completed write_output calls the file holds its prior
\* content unchanged, followed by k separate lines, one per call, each the
\* text of that call.
C5_AppendsSeparateLines ==
    /\ Len(github_output) >= Len(prior)
    /\ SubSeq(github_output, 1, Len(prior)) = prior
    /\ LinesOf(SubSeq(github_output, Len(prior) + 1, Len(github_output))) = outputs

\* C6: when the discovery query fails the run ends with that exception
\* before anything else happens: no filter call, no release lookup, nothing
\* written.
C6_DiscoveryFailureIsFatal ==
    anchors.kind \in {"exit_nonzero", "bad_json"} =>
        /\ pc \in {"start", "discover", "aborted"}
        /\ pc = "aborted" => error \in {"CalledProcessError", "JSONDecodeError"}
        /\ calls = NoCalls
        /\ review_app_namespaces = <<>>
        /\ \A n \in Names : helm[n] = Unknown
        /\ github_output = prior
        /\ outputs = <<>>

\* C6 witness: the discovery query printed something that is not JSON and
\* the run ended with the decoder's exception.
C6_Witness ==
    /\ anchors.kind = "bad_json"
    /\ pc = "aborted"
    /\ error = "JSONDecodeError"

\* the second '-'-delimited segment of a name
SecondSegment(name) ==
    LET p == CHOOSE i \in 1..Len(name) :
                 name[i] = "-" /\ \A j \in 1..(i - 1) : name[j] # "-"
        q == CHOOSE i \in (p + 1)..(Len(name) + 1) :
                 /\ i = Len(name) + 1 \/ name[i] = "-"
                 /\ \A j \in (p + 1)..(i - 1) : name[j] # "-"
    IN  SubSeq(name, p + 1, q - 1)

RECURSIVE QuotedList(_)
\* the tokens in double quotes, separated by commas
QuotedList(tokens) ==
    IF tokens = <<>> THEN <<>>
    ELSE <<"\"">> \o Head(tokens) \o <<"\"">>
         \o (IF Len(tokens) > 1 THEN <<",">> ELSE <<>>) \o QuotedList(Tail(tokens))

\* matrix={"pr_numbers":[
MatrixOpen ==
    <<"m", "a", "t", "r", "i", "x", "=", "{", "\"", "p", "r", "_", "n", "u",
      "m", "b", "e", "r", "s", "\"", ":", "[">>
\* matrix={"pr_numbers":[]}
MatrixEmpty ==
    <<"m", "a", "t", "r", "i", "x", "=", "{", "\"", "p", "r", "_", "n", "u",
      "m", "b", "e", "r", "s", "\"", ":", "[", "]", "}">>
\* matrix={"pr_numbers":["42","7"]}
Matrix42And7 ==
    <<"m", "a", "t", "r", "i", "x", "=", "{", "\"", "p", "r", "_", "n", "u",
      "m", "b", "e", "r", "s", "\"", ":", "[", "\"", "4", "2", "\"", ",",
      "\"", "7", "\"", "]", "}">>

\* the line the claim expects for a candidate list
ExpectedLine(list) ==
    MatrixOpen \o QuotedList([i \in DOMAIN list |-> SecondSegment(list[i])])
        \o <<"]", "}">>

\* C8: write_output emits one token per candidate, in the order of the
\* list, each the second '-'-delimited segment of the name; for the empty
\* list the text is exactly matrix={"pr_numbers":[]}.
C8_OneTokenPerCandidate ==
    pc = "done" =>
        /\ github_output = prior \o ExpectedLine(to_be_deleted)
        /\ to_be_deleted = <<>> => github_output = prior \o MatrixEmpty

\* C8 witness: review-42-foo and review-7-foo were written as "42","7".
C8_Witness ==
    /\ pc = "done"
    /\ to_be_deleted = <<Review \o <<"4", "2", "-">> \o Foo,
                         Review \o <<"7", "-">> \o Foo>>
    /\ github_output = prior \o Matrix42And7

\* C9: a second run against the same cluster with the same current time
\* ends like the first, with the same deletion candidate list, and appends
\* the same text after that of the first.
C9_SecondRunRepeatsFirst ==
    (/\ prev.valid
     /\ pc \in {"done", "aborted"}
     /\ current_time = prev.current_time) =>
        /\ pc = prev.pc
        /\ to_be_deleted = prev.to_be_deleted
        /\ Len(prev.after) >= Len(prev.before)
        /\ github_output =
               prev.after \o SubSeq(prev.after, Len(prev.before) + 1, Len(prev.after))

\* C9 witness: two completed runs with the same snapshot of the clock, each
\* selecting review-1-fo.
C9_Witness ==
    /\ prev.valid
    /\ prev.pc = "done"
    /\ pc = "done"
    /\ current_time = prev.current_time
    /\ to_be_deleted = <<NsA>>
    /\ Len(outputs) = 2

RECURSIVE IsSubseq(_, _)
\* a is b with some elements left out, the order kept
IsSubseq(a, b) ==
    IF a = <<>> THEN TRUE
    ELSE IF b = <<>> THEN FALSE
    ELSE IF Head(a) = Head(b) THEN IsSubseq(Tail(a), Tail(b))
    ELSE IsSubseq(a, Tail(b))

\* C10: the deletion candidate list is an order-preserving subsequence of
\* the processed prefix of the filtered list, the filtered list is one of
\* the discovered list, and every filtered name matches the pattern.
C10_SelectedAreDiscoveredReviewApps ==
    /\ IsSubseq(to_be_deleted, SubSeq(review_app_namespaces, 1, Processed))
    /\ IsSubseq(review_app_namespaces, subnamespaces)
    /\ \A i \in DOMAIN review_app_namespaces :
           ReMatch(ReviewRegex(args.review_app_name), review_app_namespaces[i])

\* C10 witness: of three discovered names two matched; the lookup of the
\* second of them failed, and the run went on to its end.
C10_Witness ==
    /\ pc = "done"
    /\ subnamespaces = <<NsB, NsX, NsA>>
    /\ review_app_namespaces = <<NsB, NsA>>
    /\ LookupFails(helm[NsA])
    /\ to_be_deleted # <<>>

====
